---- MODULE Spec2Model ----
(***************************************************************************)
(* A model of libbluez-rs: the discovery session of src/adapter.rs         *)
(* (Adapter::start_discovery_session) together with the path helper of     *)
(* src/device.rs it relies on, and the library's other functions: the      *)
(* enumeration of src/common.rs, the property snapshots and the searches   *)
(* of src/adapter.rs and src/device.rs.                                    *)
(*                                                                         *)
(* Text that the code only compares for equality (interface names, signal  *)
(* members, property names, match rules) is a TLA+ string.  Object paths,  *)
(* which the code takes apart, are sequences of one-character strings:     *)
(* "/0/00" is <<"/", "0", "/", "0", "0">>.                                     *)
(*                                                                         *)
(* The session runs on the caller's thread and blocks in bus calls; each   *)
(* bus call is one step whose outcome (Ok or Err) the bus decides.  A     *)
(* call to add or remove a match rule that returns Err may still have     *)
(* been performed by the bus (the reply was lost or came too late): the   *)
(* rule is then changed although the session saw an error.                *)
(*                                                                         *)
(* The other functions make one or more blocking bus calls and return;     *)
(* each is one step from its arguments and the bus's replies to its        *)
(* result, which is Ok(v), Err(call) or a panic of the calling thread.     *)
(***************************************************************************)
EXTENDS Integers, Sequences, FiniteSets, TLC

VARIABLES
    object_path,  \* Adapter.object_path of the handle the session runs on
    duration,     \* the duration argument of start_discovery_session (seconds)
    pc,           \* position of the session in start_discovery_session
    matches,      \* the connection's match rules: rule -> times registered
    calls,        \* bus operations issued so far, in order
    elapsed,      \* milliseconds since `now` (adapter.rs:93)
    i,            \* the loop variable: the ConnectionItem being handled
    found,        \* object paths of the devices handed to the callback f
    result,       \* what start_discovery_session returned
    api,          \* a library function applied on its own, with its arguments
    ret           \* what that function returned

vars == <<object_path, duration, pc, matches, calls, elapsed, i, found, result,
          api, ret>>

----------------------------------------------------------------------------
(* Bounds of the model *)

MaxPathLen == 5       \* longest object path, in characters
MaxDuration == 1      \* largest duration argument, in seconds
MaxFound == 2         \* most callback invocations recorded in one session
TickMs == 500         \* step of the clock, in milliseconds
MaxObjects == 2       \* most objects in one GetManagedObjects reply
MaxDefects == 1       \* most fields of a property dictionary missing or mistyped

PathChars == {"/", "0"}
MaxElapsed == (MaxDuration + 1) * 1000

----------------------------------------------------------------------------
(* Names the code compares against *)

ADAPTER_INTERFACE == "org.bluez.Adapter1"
DEVICE_INTERFACE == "org.bluez.Device1"
PROPERTIES_INTERFACE == "org.freedesktop.DBus.Properties"

filter1 == "sender='org.bluez',interface='org.freedesktop.DBus.ObjectManager',member='InterfacesAdded'"
filter2 == "sender='org.bluez',interface='org.freedesktop.DBus.Properties',member='PropertiesChanged'"
Filters == {filter1, filter2}

----------------------------------------------------------------------------
(* Object paths *)

Strings(n) == UNION {[1..k -> PathChars] : k \in 0..n}

\* A valid D-Bus object path: "/" alone, or "/"-led segments, none empty.
IsObjectPath(p) ==
    /\ Len(p) >= 1
    /\ p[1] = "/"
    /\ (Len(p) > 1 => p[Len(p)] # "/")
    /\ \A k \in 1..(Len(p) - 1) : ~(p[k] = "/" /\ p[k + 1] = "/")

ObjectPaths == {p \in Strings(MaxPathLen) : IsObjectPath(p)}

\* Paths an Adapter handle may carry: short enough to have objects below.
AdapterPaths == {p \in ObjectPaths : Len(p) + 2 <= MaxPathLen}

\* A faulty variant of rsplitn2_last: the first piece of rsplitn, the text
\* after the last '/'.
rsplitn2_first(s) ==
    LET seps == {k \in 1..Len(s) : s[k] = "/"}
    IN  IF seps = {} THEN s
        ELSE LET k == CHOOSE m \in seps : \A n \in seps : n <= m
             IN  SubSeq(s, k + 1, Len(s))

\* str::rsplitn(2, '/').last(): the text before the last '/', or the whole
\* text when it holds no '/'.
rsplitn2_last(s) ==
    LET seps == {k \in 1..Len(s) : s[k] = "/"}
    IN  IF seps = {} THEN s
        ELSE LET k == CHOOSE m \in seps : \A n \in seps : n <= m
             IN  SubSeq(s, 1, k - 1)

\* str::splitn(2, '/').last(): the text after the first '/'.
splitn2_last(s) ==
    LET seps == {k \in 1..Len(s) : s[k] = "/"}
    IN  IF seps = {} THEN s
        ELSE LET k == CHOOSE m \in seps : \A n \in seps : m <= n
             IN  SubSeq(s, k + 1, Len(s))

\* A faulty variant of adapter_object_path: splits at the first separator.
adapter_object_path_splitn(path) == splitn2_last(path)

\* device.rs:58-60
adapter_object_path(path) == rsplitn2_last(path)

\* A faulty variant of is_device_of: a prefix test in place of the parent test.
is_device_of_prefix(device_path, adapter_path) ==
    /\ Len(device_path) >= Len(adapter_path)
    /\ SubSeq(device_path, 1, Len(adapter_path)) = adapter_path

\* The test of adapter.rs:138.
is_device_of(device_path, adapter_path) ==
    adapter_object_path(device_path) = adapter_path

----------------------------------------------------------------------------
(* dbus::MessageItem, as tagged values *)

MStr(s) == [t |-> "Str", v |-> s]
MObjectPath(p) == [t |-> "ObjectPath", v |-> p]
MBool(b) == [t |-> "Bool", v |-> b]
MVariant(x) == [t |-> "Variant", v |-> x]
MArray(xs) == [t |-> "Array", v |-> xs]
MDictEntry(k, x) == [t |-> "DictEntry", k |-> k, v |-> x]

\* MessageItem::inner::<T>() is Ok exactly for the tags of T.
is_str(m) == m.t \in {"Str", "ObjectPath"}
is_slice(m) == m.t \in {"Array", "Struct"}
is_pair(m) == m.t = "DictEntry"
is_variant(m) == m.t = "Variant"
is_bool(m) == m.t = "Bool"

----------------------------------------------------------------------------
(* The loop body of start_discovery_session, adapter.rs:96-144 *)

\* A faulty variant of scan_props: only the first changed property is looked at.
scan_props_first(props) ==
    IF props = <<>> THEN "continue"
    ELSE LET p == Head(props)
         IN  IF ~is_pair(p) THEN "panic"
             ELSE IF ~is_str(p.k) THEN "panic"
             ELSE IF p.k.v = "Discovering"
                  THEN IF ~is_variant(p.v) THEN "panic"
                       ELSE IF ~is_bool(p.v.v) THEN "panic"
                       ELSE IF ~p.v.v.v THEN "break"
                       ELSE "continue"
             ELSE "continue"

\* adapter.rs:109-119: "break" on Discovering = false, "panic" on an unwrap
\* of a value of another shape, "continue" at the end of the list.
RECURSIVE scan_props(_)
scan_props(props) ==
    IF props = <<>> THEN "continue"
    ELSE LET p == Head(props)
         IN  IF ~is_pair(p) THEN "panic"
             ELSE IF ~is_str(p.k) THEN "panic"
             ELSE IF p.k.v = "Discovering"
                  THEN IF ~is_variant(p.v) THEN "panic"
                       ELSE IF ~is_bool(p.v.v) THEN "panic"
                       ELSE IF ~p.v.v.v THEN "break"
                       ELSE scan_props(Tail(props))
             ELSE scan_props(Tail(props))

\* adapter.rs:132-142: the devices handed to f, and whether an unwrap failed.
RECURSIVE scan_ifaces(_, _, _)
scan_ifaces(dict, obj_path, self_path) ==
    IF dict = <<>> THEN [ctl |-> "continue", found |-> <<>>]
    ELSE LET kv == Head(dict)
         IN  IF ~is_pair(kv) \/ ~is_str(kv.k)
             THEN [ctl |-> "panic", found |-> <<>>]
             ELSE LET rest == scan_ifaces(Tail(dict), obj_path, self_path)
                      here == IF kv.k.v = DEVICE_INTERFACE
                                 /\ is_device_of(obj_path, self_path)
                              THEN <<obj_path>> ELSE <<>>
                  IN  [ctl |-> rest.ctl, found |-> here \o rest.found]

\* adapter.rs:99-121
on_properties_changed(items) ==
    IF Len(items) < 1 \/ ~is_str(items[1])
    THEN [ctl |-> "panic", found |-> <<>>]
    ELSE IF items[1].v = ADAPTER_INTERFACE
         THEN IF Len(items) < 2 \/ ~is_slice(items[2])
              THEN [ctl |-> "panic", found |-> <<>>]
              ELSE [ctl |-> scan_props(items[2].v), found |-> <<>>]
         ELSE [ctl |-> "continue", found |-> <<>>]

\* adapter.rs:123-143
on_interfaces_added(items, self_path) ==
    IF \/ Len(items) < 2
       \/ ~is_str(items[1])
       \/ ~is_slice(items[2])
    THEN [ctl |-> "panic", found |-> <<>>]
    ELSE scan_ifaces(items[2].v, items[1].v, self_path)

\* A faulty variant of handle_item: PropertiesChanged is not matched against the
\* adapter's own path.
handle_item_anypath(item, self_path) ==
    IF item.kind = "Signal"
    THEN IF item.member = "PropertiesChanged"
         THEN on_properties_changed(item.items)
         ELSE IF item.member = "InterfacesAdded"
              THEN on_interfaces_added(item.items, self_path)
              ELSE [ctl |-> "continue", found |-> <<>>]
    ELSE [ctl |-> "continue", found |-> <<>>]

\* adapter.rs:96-144
handle_item(item, self_path) ==
    IF item.kind = "Signal"
    THEN IF item.member = "PropertiesChanged" /\ item.path = self_path
         THEN on_properties_changed(item.items)
         ELSE IF item.member = "InterfacesAdded"
              THEN on_interfaces_added(item.items, self_path)
              ELSE [ctl |-> "continue", found |-> <<>>]
    ELSE [ctl |-> "continue", found |-> <<>>]

\* Duration::as_secs of an elapsed time kept in milliseconds
as_secs(ms) == ms \div 1000

\* A faulty variant of duration_reached: a zero duration is not treated as unbounded.
duration_reached_zero(d, ms) == as_secs(ms) >= d

\* A faulty variant of duration_reached: the bound must be exceeded, not met.
duration_reached_strict(d, ms) == d > 0 /\ as_secs(ms) > d

\* adapter.rs:146
duration_reached(d, ms) == d > 0 /\ as_secs(ms) >= d

----------------------------------------------------------------------------
(* What the connection's iterator can yield (dbus::ConnectionItem) *)

Nothing == [kind |-> "Nothing"]
MethodCall == [kind |-> "MethodCall"]
MethodReturn == [kind |-> "MethodReturn"]
NoItem == [kind |-> "None"]

Signal(member, path, items) ==
    [kind |-> "Signal", member |-> member, path |-> path, items |-> items]

PropEntry(name, x) == MDictEntry(MStr(name), MVariant(x))

\* org.freedesktop.DBus.Properties.PropertiesChanged, signature sa{sv}as
PropertiesChanged(path, iface, props) ==
    Signal("PropertiesChanged", path, <<MStr(iface), MArray(props), MArray(<<>>)>>)

\* org.freedesktop.DBus.ObjectManager.InterfacesAdded, signature oa{sa{sv}}
InterfacesAdded(obj_path, ifaces) ==
    Signal("InterfacesAdded", <<"/">>,
           <<MObjectPath(obj_path),
             MArray([k \in 1..Len(ifaces) |-> MDictEntry(MStr(ifaces[k]), MArray(<<>>))])>>)

PropLists ==
    { <<>>,
      <<PropEntry("Discovering", MBool(FALSE))>>,
      <<PropEntry("Discovering", MBool(TRUE))>>,
      <<PropEntry("Powered", MBool(TRUE)), PropEntry("Discovering", MBool(FALSE))>>,
      <<PropEntry("Discovering", MBool(FALSE)), PropEntry("Powered", MBool(FALSE))>>,
      <<PropEntry("Powered", MBool(FALSE)), PropEntry("Discovering", MBool(TRUE))>> }

IfaceLists ==
    { <<DEVICE_INTERFACE>>,
      <<ADAPTER_INTERFACE>>,
      <<PROPERTIES_INTERFACE, DEVICE_INTERFACE>> }

\* Emitting paths of the PropertiesChanged signals a session on adapter
\* `self` is sent: its own, and one that only shares a prefix with it.
PropertiesChangedPaths(self) == {self, self \o <<"0">>}

\* The items a bus that keeps to the declared signatures delivers to a
\* session on adapter `self`.
Items(self) ==
    {Nothing, MethodCall, MethodReturn}
    \cup {Signal("InterfacesRemoved", <<"/">>, <<>>)}
    \cup {PropertiesChanged(p, ifc, pl) :
            p \in PropertiesChangedPaths(self),
            ifc \in {ADAPTER_INTERFACE, DEVICE_INTERFACE},
            pl \in PropLists}
    \cup {InterfacesAdded(p, ifs) : p \in ObjectPaths, ifs \in IfaceLists}

\* Items, tabulated once per adapter path.
ItemsOf == [a \in AdapterPaths |-> Items(a)]

----------------------------------------------------------------------------
(* Results *)

Pending == <<"Pending">>
Ok == <<"Ok">>
Err(op) == <<"Err", op>>

\* No library function is applied on its own while a session runs.
NoCall == [fn |-> "none"]

Init ==
    /\ object_path \in AdapterPaths
    /\ duration = 0
    /\ pc = "NotStarted"
    /\ matches = [f \in Filters |-> 0]
    /\ calls = <<>>
    /\ elapsed = 0
    /\ i = NoItem
    /\ found = <<>>
    /\ result = Pending
    /\ api = NoCall
    /\ ret = Pending

\* try!(e): on Err the function returns it from where it stands.
Returns(r) ==
    /\ pc' = "returned"
    /\ result' = r

\* adapter.rs:82: the call, with its duration argument
start_discovery_session(d) ==
    /\ pc = "NotStarted"
    /\ duration' = d
    /\ pc' = "add_match1"
    /\ UNCHANGED <<api, ret>>
    /\ UNCHANGED <<object_path, matches, calls, elapsed, i, found, result>>

\* adapter.rs:88
add_match1(ok) ==
    /\ pc = "add_match1"
    /\ calls' = Append(calls, "AddMatch1")
    /\ IF ok
       THEN /\ matches' = [matches EXCEPT ![filter1] = @ + 1]
            /\ pc' = "add_match2"
            /\ UNCHANGED result
       ELSE /\ Returns(Err("AddMatch1"))
            /\ matches' \in {matches, [matches EXCEPT ![filter1] = @ + 1]}
    /\ UNCHANGED <<api, ret>>
    /\ UNCHANGED <<object_path, duration, elapsed, i, found>>

\* A faulty variant of add_match2: the call is made but the second filter is
\* not registered when the session goes on.
add_match2_unregistered(ok) ==
    /\ pc = "add_match2"
    /\ calls' = Append(calls, "AddMatch2")
    /\ IF ok
       THEN /\ pc' = "start_discovery"
            /\ UNCHANGED result
       ELSE Returns(Err("AddMatch2"))
    /\ UNCHANGED <<api, ret>>
    /\ UNCHANGED <<object_path, duration, matches, elapsed, i, found>>

\* adapter.rs:89
add_match2(ok) ==
    /\ pc = "add_match2"
    /\ calls' = Append(calls, "AddMatch2")
    /\ IF ok
       THEN /\ matches' = [matches EXCEPT ![filter2] = @ + 1]
            /\ pc' = "start_discovery"
            /\ UNCHANGED result
       ELSE /\ Returns(Err("AddMatch2"))
            /\ matches' \in {matches, [matches EXCEPT ![filter2] = @ + 1]}
    /\ UNCHANGED <<api, ret>>
    /\ UNCHANGED <<object_path, duration, elapsed, i, found>>

\* A faulty variant of start_discovery: a failed StartDiscovery is issued a
\* second time before the error is returned.
start_discovery_retried(ok) ==
    /\ pc = "start_discovery"
    /\ calls' = Append(calls, "StartDiscovery")
    /\ IF ok
       THEN /\ pc' = "poll"
            /\ elapsed' = 0
            /\ UNCHANGED result
       ELSE /\ IF calls # <<>> /\ calls[Len(calls)] = "StartDiscovery"
               THEN Returns(Err("StartDiscovery"))
               ELSE UNCHANGED <<pc, result>>
            /\ UNCHANGED elapsed
    /\ UNCHANGED <<api, ret>>
    /\ UNCHANGED <<object_path, duration, matches, i, found>>

\* adapter.rs:91-93: StartDiscovery, then `now` is taken
start_discovery(ok) ==
    /\ pc = "start_discovery"
    /\ calls' = Append(calls, "StartDiscovery")
    /\ IF ok
       THEN /\ pc' = "poll"
            /\ elapsed' = 0
            /\ UNCHANGED result
       ELSE /\ Returns(Err("StartDiscovery"))
            /\ UNCHANGED elapsed
    /\ UNCHANGED <<api, ret>>
    /\ UNCHANGED <<object_path, duration, matches, i, found>>

\* adapter.rs:95: conn.iter(100) yields the next item, Nothing after an idle
\* wait, or ends (the connection was closed), which ends the `for` and takes
\* the session to adapter.rs:152.  Signals that would take the callback log
\* past MaxFound are held back.
poll ==
    /\ pc = "poll"
    /\ \/ /\ \E item \in ItemsOf[object_path] :
                /\ Len(found) + Len(handle_item(item, object_path).found) <= MaxFound
                /\ i' = item
          /\ pc' = "process"
       \/ /\ pc' = "remove_match1"
          /\ UNCHANGED i
    /\ UNCHANGED <<api, ret>>
    /\ UNCHANGED <<object_path, duration, matches, calls, elapsed, found, result>>

\* A faulty variant of process: the reports of the item being handled are
\* placed before the earlier ones.
process_prepending ==
    /\ pc = "process"
    /\ LET r == handle_item(i, object_path)
       IN  /\ found' = r.found \o found
           /\ pc' = CASE r.ctl = "panic" -> "panicked"
                      [] r.ctl = "break" -> "remove_match1"
                      [] OTHER -> "check_duration"
    /\ UNCHANGED <<api, ret>>
    /\ UNCHANGED <<object_path, duration, matches, calls, elapsed, i, result>>

\* A faulty variant of process: the duration is tested before the item is
\* handled, and an item taken once the bound is met is dropped.
process_after_check ==
    /\ pc = "process"
    /\ IF duration_reached(duration, elapsed)
       THEN /\ pc' = "stop_discovery"
            /\ UNCHANGED found
       ELSE LET r == handle_item(i, object_path)
            IN  /\ found' = found \o r.found
                /\ pc' = CASE r.ctl = "panic" -> "panicked"
                           [] r.ctl = "break" -> "remove_match1"
                           [] OTHER -> "check_duration"
    /\ UNCHANGED <<api, ret>>
    /\ UNCHANGED <<object_path, duration, matches, calls, elapsed, i, result>>

\* adapter.rs:96-144: the item is classified and acted upon
process ==
    /\ pc = "process"
    /\ LET r == handle_item(i, object_path)
       IN  /\ found' = found \o r.found
           /\ pc' = CASE r.ctl = "panic" -> "panicked"
                      [] r.ctl = "break" -> "remove_match1"
                      [] OTHER -> "check_duration"
    /\ UNCHANGED <<api, ret>>
    /\ UNCHANGED <<object_path, duration, matches, calls, elapsed, i, result>>

\* adapter.rs:146 and the end of the loop body.  The item goes out of scope
\* when the loop goes round; it is kept when the loop is left.
check_duration ==
    /\ pc = "check_duration"
    /\ IF duration_reached(duration, elapsed)
       THEN /\ pc' = "stop_discovery"
            /\ UNCHANGED i
       ELSE /\ pc' = "poll"
            /\ i' = NoItem
    /\ UNCHANGED <<api, ret>>
    /\ UNCHANGED <<object_path, duration, matches, calls, elapsed, found, result>>

\* A faulty variant of stop_discovery: a failure is noted and the session
\* goes on to the unregistrations, whose outcome is then returned.
stop_discovery_overridden(ok) ==
    /\ pc = "stop_discovery"
    /\ calls' = Append(calls, "StopDiscovery")
    /\ pc' = "remove_match1"
    /\ result' = IF ok THEN result ELSE Err("StopDiscovery")
    /\ UNCHANGED <<api, ret>>
    /\ UNCHANGED <<object_path, duration, matches, elapsed, i, found>>

\* adapter.rs:147-148
stop_discovery(ok) ==
    /\ pc = "stop_discovery"
    /\ calls' = Append(calls, "StopDiscovery")
    /\ IF ok
       THEN /\ pc' = "remove_match1"
            /\ UNCHANGED result
       ELSE Returns(Err("StopDiscovery"))
    /\ UNCHANGED <<api, ret>>
    /\ UNCHANGED <<object_path, duration, matches, elapsed, i, found>>

\* adapter.rs:152
remove_match1(ok) ==
    /\ pc = "remove_match1"
    /\ calls' = Append(calls, "RemoveMatch1")
    /\ IF ok
       THEN /\ matches' = [matches EXCEPT ![filter1] = @ - 1]
            /\ pc' = "remove_match2"
            /\ UNCHANGED result
       ELSE /\ Returns(Err("RemoveMatch1"))
            /\ matches' \in {matches, [matches EXCEPT ![filter1] = @ - 1]}
    /\ UNCHANGED <<api, ret>>
    /\ UNCHANGED <<object_path, duration, elapsed, i, found>>

\* adapter.rs:153-155
remove_match2(ok) ==
    /\ pc = "remove_match2"
    /\ calls' = Append(calls, "RemoveMatch2")
    /\ IF ok
       THEN /\ matches' = [matches EXCEPT ![filter2] = @ - 1]
            /\ Returns(Ok)
       ELSE /\ Returns(Err("RemoveMatch2"))
            /\ matches' \in {matches, [matches EXCEPT ![filter2] = @ - 1]}
    /\ UNCHANGED <<api, ret>>
    /\ UNCHANGED <<object_path, duration, elapsed, i, found>>

\* Wall-clock time passes while the session is in its loop.
Tick ==
    /\ pc \in {"poll", "process", "check_duration"}
    /\ elapsed + TickMs <= MaxElapsed
    /\ elapsed' = elapsed + TickMs
    /\ UNCHANGED <<api, ret>>
    /\ UNCHANGED <<object_path, duration, pc, matches, calls, i, found, result>>

SessionStep ==
    \/ \E d \in 0..MaxDuration : start_discovery_session(d)
    \/ \E ok \in BOOLEAN : add_match1(ok)
    \/ \E ok \in BOOLEAN : add_match2(ok)
    \/ \E ok \in BOOLEAN : start_discovery(ok)
    \/ poll
    \/ process
    \/ check_duration
    \/ \E ok \in BOOLEAN : stop_discovery(ok)
    \/ \E ok \in BOOLEAN : remove_match1(ok)
    \/ \E ok \in BOOLEAN : remove_match2(ok)

Next == SessionStep \/ Tick

Spec == Init /\ [][Next]_vars

\* The clock advances, and the calling thread keeps running: every bus call
\* returns within its timeout and conn.iter(100) yields after at most 100 ms.
SpecLive == Spec /\ WF_vars(Tick) /\ WF_vars(SessionStep)

----------------------------------------------------------------------------
(* The session on a bus that also delivers signals of other shapes *)

\* Signals whose arguments are not of the declared signature: arguments
\* missing, an argument of another type, a Discovering that is no boolean.
UntypedItems(self) ==
    { Signal("PropertiesChanged", self, <<>>),
      Signal("PropertiesChanged", self, <<MBool(TRUE)>>),
      Signal("PropertiesChanged", self, <<MStr(ADAPTER_INTERFACE)>>),
      Signal("PropertiesChanged", self, <<MStr(ADAPTER_INTERFACE), MBool(TRUE)>>),
      Signal("PropertiesChanged", self,
             <<MStr(ADAPTER_INTERFACE),
               MArray(<<PropEntry("Discovering", MStr("false"))>>)>>),
      Signal("InterfacesAdded", <<"/">>, <<>>),
      Signal("InterfacesAdded", <<"/">>, <<MBool(TRUE), MArray(<<>>)>>),
      Signal("InterfacesAdded", <<"/">>, <<MObjectPath(self \o <<"/", "0">>)>>),
      Signal("InterfacesAdded", <<"/">>,
             <<MObjectPath(self \o <<"/", "0">>), MArray(<<MBool(TRUE)>>)>>) }

UntypedItemsOf == [a \in AdapterPaths |-> UntypedItems(a)]

\* adapter.rs:96, yielding a signal of another shape
poll_untyped ==
    /\ pc = "poll"
    /\ \E item \in UntypedItemsOf[object_path] : i' = item
    /\ pc' = "process"
    /\ UNCHANGED <<api, ret>>
    /\ UNCHANGED <<object_path, duration, matches, calls, elapsed, found, result>>

NextUntyped == SessionStep \/ Tick \/ poll_untyped

SpecUntyped == Init /\ [][NextUntyped]_vars

----------------------------------------------------------------------------
(* Library functions applied on their own: what they return *)

\* An unwrap() of None or of Err: the calling thread panics.
Panic == <<"Panic">>
\* Ok(v)
OkOf(v) == <<"Ok", v>>

\* A value returned that is no Result
Value(v) == <<"Value", v>>

\* device.rs:37-39: object_path.to_string(), a copy of the text
Device_new(path) == [k \in 1..Len(path) |-> path[k]]

\* str::ends_with, for a one-character pattern
ends_with(s, c) == Len(s) >= 1 /\ s[Len(s)] = c
\* str::starts_with
starts_with(s, prefix) ==
    /\ Len(prefix) <= Len(s)
    /\ SubSeq(s, 1, Len(prefix)) = prefix

----------------------------------------------------------------------------
(* common.rs: dbus_get_managed_objects *)

\* A faulty variant of normalize_root: the root is used as it was given.
normalize_root_skipped(path) == path

\* common.rs:11-12
normalize_root(path) ==
    IF ends_with(path, "/") THEN path ELSE path \o <<"/">>

\* The reply of GetManagedObjects: Err of the transport, or a message with
\* its arguments.
TransportErr == [ok |-> FALSE, items |-> <<>>]
Reply(items) == [ok |-> TRUE, items |-> items]

\* common.rs:28-35, the handles pushed for one object, in order
RECURSIVE walk_ifaces(_, _, _, _)
walk_ifaces(obj_ifaces, obj_path, iface, path) ==
    IF obj_ifaces = <<>> THEN OkOf(<<>>)
    ELSE LET obj_iface == Head(obj_ifaces)
         IN  IF ~is_pair(obj_iface) THEN Panic
             ELSE IF ~is_str(obj_iface.k) THEN Panic
             ELSE LET here == IF obj_iface.k.v = iface
                                 /\ starts_with(obj_path, path)
                              THEN <<obj_path>> ELSE <<>>
                      rest == walk_ifaces(Tail(obj_ifaces), obj_path, iface, path)
                  IN  IF rest[1] = "Panic" THEN Panic
                      ELSE OkOf(here \o rest[2])

\* A faulty variant of walk_objects: the handles of later objects come first.
RECURSIVE walk_objects_reversed(_, _, _)
walk_objects_reversed(objects, iface, path) ==
    IF objects = <<>> THEN OkOf(<<>>)
    ELSE LET obj == Head(objects)
         IN  IF ~is_pair(obj) THEN Panic
             ELSE IF ~is_str(obj.k) THEN Panic
             ELSE IF ~is_slice(obj.v) THEN Panic
             ELSE LET here == walk_ifaces(obj.v.v, obj.k.v, iface, path)
                  IN  IF here[1] = "Panic" THEN Panic
                      ELSE LET rest == walk_objects_reversed(Tail(objects), iface, path)
                           IN  IF rest[1] = "Panic" THEN Panic
                               ELSE OkOf(rest[2] \o here[2])

\* common.rs:23-36
RECURSIVE walk_objects(_, _, _)
walk_objects(objects, iface, path) ==
    IF objects = <<>> THEN OkOf(<<>>)
    ELSE LET obj == Head(objects)
         IN  IF ~is_pair(obj) THEN Panic
             ELSE IF ~is_str(obj.k) THEN Panic
             ELSE IF ~is_slice(obj.v) THEN Panic
             ELSE LET here == walk_ifaces(obj.v.v, obj.k.v, iface, path)
                  IN  IF here[1] = "Panic" THEN Panic
                      ELSE LET rest == walk_objects(Tail(objects), iface, path)
                           IN  IF rest[1] = "Panic" THEN Panic
                               ELSE OkOf(here[2] \o rest[2])

\* common.rs:7-39.  A handle is modelled by its object path.
dbus_get_managed_objects(path, iface, resp) ==
    IF ~resp.ok THEN Err("GetManagedObjects")
    ELSE IF resp.items = <<>> THEN Panic
    ELSE LET objects == resp.items[Len(resp.items)]
         IN  IF ~is_slice(objects) THEN Panic
             ELSE walk_objects(objects.v, iface, normalize_root(path))

\* adapter.rs:197-203
get_adapters(resp) == dbus_get_managed_objects(<<"/">>, ADAPTER_INTERFACE, resp)

\* device.rs:143-149
get_devices(adapter_path, resp) ==
    dbus_get_managed_objects(adapter_path, DEVICE_INTERFACE, resp)

\* The interfaces of one object: {name: properties}
IfaceDict(ifaces) ==
    MArray([k \in 1..Len(ifaces) |-> MDictEntry(MStr(ifaces[k]), MArray(<<>>))])

\* One entry of the reply: {object path: interfaces}
ObjectEntry(obj_path, ifaces) == MDictEntry(MObjectPath(obj_path), IfaceDict(ifaces))

\* Paths of the objects a reply lists.
ReplyPaths == {p \in ObjectPaths : Len(p) < MaxPathLen}

ReplyIfaceLists ==
    { <<ADAPTER_INTERFACE>>, <<PROPERTIES_INTERFACE, DEVICE_INTERFACE>> }

\* Entries of the declared signature a{oa{sa{sv}}}.
TypedEntries == {ObjectEntry(p, ifs) : p \in ReplyPaths, ifs \in ReplyIfaceLists}

\* Entries of another shape: not a pair, a path that is no string, interfaces
\* that are no list, an interface that is no pair.
UntypedEntries ==
    { MBool(TRUE),
      MDictEntry(MBool(TRUE), IfaceDict(<<DEVICE_INTERFACE>>)),
      MDictEntry(MObjectPath(<<"/", "0">>), MBool(TRUE)),
      MDictEntry(MObjectPath(<<"/", "0">>), MArray(<<MBool(TRUE)>>)) }

SeqsUpTo(S, n) == UNION {[1..k -> S] : k \in 0..n}

\* Replies: the transport's error, a message without arguments, a message
\* whose argument is no list, and lists of up to n entries.
Replies(n) ==
    {TransportErr, Reply(<<>>), Reply(<<MBool(TRUE)>>)}
    \cup {Reply(<<MArray(es)>>) : es \in SeqsUpTo(TypedEntries \cup UntypedEntries, n)}
----------------------------------------------------------------------------
(* adapter.rs, device.rs: the property snapshots *)

MUInt32(n) == [t |-> "UInt32", v |-> n]
MUInt16(n) == [t |-> "UInt16", v |-> n]
MInt16(n) == [t |-> "Int16", v |-> n]

\* Option<T>
None == <<>>
Some(x) == <<x>>

\* The tags for which MessageItem::inner::<T>() is Ok; T is named by its
\* Rust type: &str, bool, u32, u16, i16, &[MessageItem].
TagsOf(T) ==
    CASE T = "str" -> {"Str", "ObjectPath"}
      [] T = "bool" -> {"Bool"}
      [] T = "u32" -> {"UInt32"}
      [] T = "u16" -> {"UInt16"}
      [] T = "i16" -> {"Int16"}
      [] T = "slice" -> {"Array", "Struct"}

\* adapter.rs:172-175, device.rs:116-119
_get_prop(props_map, name, T) ==
    IF name \in DOMAIN props_map
    THEN IF props_map[name].t \in TagsOf(T)
         THEN Some(props_map[name].v)
         ELSE None
    ELSE None

\* A faulty variant of uuid_strings: an element that is no string is left out.
RECURSIVE uuid_strings_lenient(_)
uuid_strings_lenient(xs) ==
    IF xs = <<>> THEN OkOf(<<>>)
    ELSE LET rest == uuid_strings_lenient(Tail(xs))
         IN  IF ~is_str(Head(xs)) THEN rest
             ELSE OkOf(<<Head(xs).v>> \o rest[2])

\* adapter.rs:189-191, device.rs:129-131: .iter().map(unwrap).collect()
RECURSIVE uuid_strings(_)
uuid_strings(xs) ==
    IF xs = <<>> THEN OkOf(<<>>)
    ELSE IF ~is_str(Head(xs)) THEN Panic
    ELSE LET rest == uuid_strings(Tail(xs))
         IN  IF rest[1] = "Panic" THEN Panic
             ELSE OkOf(<<Head(xs).v>> \o rest[2])

\* adapter.rs:169-195.  OkOf(snapshot), or Panic where an unwrap() fails.
AdapterProperties_new(props_map) ==
    LET address == _get_prop(props_map, "Address", "str")
        name == _get_prop(props_map, "Name", "str")
        alias == _get_prop(props_map, "Alias", "str")
        class == _get_prop(props_map, "Class", "u32")
        powered == _get_prop(props_map, "Powered", "bool")
        discoverable == _get_prop(props_map, "Discoverable", "bool")
        discoverable_timeout == _get_prop(props_map, "DiscoverableTimeout", "u32")
        pairable == _get_prop(props_map, "Pairable", "bool")
        pairable_timeout == _get_prop(props_map, "PairableTimeout", "u32")
        discovering == _get_prop(props_map, "Discovering", "bool")
        uuids == _get_prop(props_map, "UUIDs", "slice")
        modalias == _get_prop(props_map, "Modalias", "str")
    IN  IF \/ address = None \/ name = None \/ alias = None \/ class = None
           \/ powered = None \/ discoverable = None
           \/ discoverable_timeout = None \/ pairable = None
           \/ pairable_timeout = None \/ discovering = None \/ uuids = None
        THEN Panic
        ELSE LET strings == uuid_strings(uuids[1])
             IN  IF strings[1] = "Panic" THEN Panic
                 ELSE OkOf([address |-> address[1],
                            name |-> name[1],
                            alias |-> alias[1],
                            class |-> class[1],
                            powered |-> powered[1],
                            discoverable |-> discoverable[1],
                            discoverable_timeout |-> discoverable_timeout[1],
                            pairable |-> pairable[1],
                            pairable_timeout |-> pairable_timeout[1],
                            discovering |-> discovering[1],
                            uuids |-> strings[2],
                            modalias |-> modalias])

\* device.rs:113-141.  OkOf(snapshot), or Panic where an unwrap() fails.
DeviceProperties_new(props_map) ==
    LET address == _get_prop(props_map, "Address", "str")
        name == _get_prop(props_map, "Name", "str")
        alias == _get_prop(props_map, "Alias", "str")
        icon == _get_prop(props_map, "Icon", "str")
        class == _get_prop(props_map, "Class", "u32")
        appearance == _get_prop(props_map, "Appearance", "u16")
        uuids == _get_prop(props_map, "UUIDs", "slice")
        paired == _get_prop(props_map, "Paired", "bool")
        connected == _get_prop(props_map, "Connected", "bool")
        trusted == _get_prop(props_map, "Trusted", "bool")
        blocked == _get_prop(props_map, "Blocked", "bool")
        legacy_pairing == _get_prop(props_map, "LegacyPairing", "bool")
        modalias == _get_prop(props_map, "Modalias", "str")
        rssi == _get_prop(props_map, "RSSI", "i16")
    IN  IF \/ address = None \/ alias = None \/ paired = None
           \/ connected = None \/ trusted = None \/ blocked = None
           \/ legacy_pairing = None
        THEN Panic
        ELSE LET strings == uuid_strings(IF uuids = None THEN <<>> ELSE uuids[1])
             IN  IF strings[1] = "Panic" THEN Panic
                 ELSE OkOf([address |-> address[1],
                            name |-> name,
                            alias |-> alias[1],
                            icon |-> icon,
                            class |-> class,
                            appearance |-> appearance,
                            uuids |-> strings[2],
                            paired |-> paired[1],
                            connected |-> connected[1],
                            trusted |-> trusted[1],
                            blocked |-> blocked[1],
                            legacy_pairing |-> legacy_pairing[1],
                            modalias |-> modalias,
                            rssi |-> rssi])

\* The reply of Props::get_all: Err of the bus, or the property dictionary.
GetAllErr == [ok |-> FALSE]
GetAllOk(props_map) == [ok |-> TRUE, props |-> props_map]

\* adapter.rs:46-49
Adapter_get_properties(reply) ==
    IF ~reply.ok THEN Err("GetAll") ELSE AdapterProperties_new(reply.props)

\* device.rs:65-68
Device_get_properties(reply) ==
    IF ~reply.ok THEN Err("GetAll") ELSE DeviceProperties_new(reply.props)

\* The properties org.bluez.Adapter1 and org.bluez.Device1 publish, each
\* with the type the snapshot asks for.
AdapterFields ==
    [Address |-> "str", Name |-> "str", Alias |-> "str", Class |-> "u32",
     Powered |-> "bool", Discoverable |-> "bool",
     DiscoverableTimeout |-> "u32", Pairable |-> "bool",
     PairableTimeout |-> "u32", Discovering |-> "bool", UUIDs |-> "slice",
     Modalias |-> "str"]
DeviceFields ==
    [Address |-> "str", Name |-> "str", Alias |-> "str", Icon |-> "str",
     Class |-> "u32", Appearance |-> "u16", UUIDs |-> "slice",
     Paired |-> "bool", Connected |-> "bool", Trusted |-> "bool",
     Blocked |-> "bool", LegacyPairing |-> "bool", Modalias |-> "str",
     RSSI |-> "i16"]

\* A value of the type T, and one of another type.
GoodValue(T) ==
    CASE T = "str" -> MStr("a")
      [] T = "bool" -> MBool(TRUE)
      [] T = "u32" -> MUInt32(1)
      [] T = "u16" -> MUInt16(1)
      [] T = "i16" -> MInt16(-1)
      [] T = "slice" -> MArray(<<MStr("u")>>)
WrongValue(T) == IF T = "str" THEN MUInt32(1) ELSE MStr("a")

\* UUID lists: empty, of strings, and with an element that is no string.
UuidLists ==
    { MArray(<<>>),
      MArray(<<MStr("u"), MStr("v")>>),
      MArray(<<MStr("u"), MUInt32(1)>>),
      MArray(<<MUInt32(1), MStr("v")>>) }

\* Dictionaries over the given fields in which at most max fields are
\* missing or carry a value of another type.
PropertyMaps(fields, max) ==
    UNION {
        { [n \in (DOMAIN fields) \ missing |->
              IF n \in defects THEN WrongValue(fields[n])
              ELSE IF n = "UUIDs" THEN uuids
              ELSE GoodValue(fields[n])] :
            missing \in SUBSET defects, uuids \in UuidLists } :
        defects \in {d \in SUBSET (DOMAIN fields) : Cardinality(d) <= max} }

AdapterReplies(max) ==
    {GetAllErr} \cup {GetAllOk(m) : m \in PropertyMaps(AdapterFields, max)}
DeviceReplies(max) ==
    {GetAllErr} \cup {GetAllOk(m) : m \in PropertyMaps(DeviceFields, max)}

----------------------------------------------------------------------------
(* adapter.rs: find_adapter, device.rs: Device::find *)

\* A faulty variant of adapter_loop: the last match is returned.
RECURSIVE adapter_loop_last(_, _, _)
adapter_loop_last(adapters, props, n) ==
    IF adapters = <<>> THEN OkOf(None)
    ELSE LET p == Adapter_get_properties(props[Head(adapters)])
         IN  IF p[1] # "Ok" THEN p
             ELSE LET rest == adapter_loop_last(Tail(adapters), props, n)
                  IN  IF rest # OkOf(None) THEN rest
                      ELSE IF p[2].address = n \/ p[2].alias = n \/ p[2].name = n
                           THEN OkOf(Some(Head(adapters)))
                           ELSE OkOf(None)

\* adapter.rs:209-215.  props gives, for each object path, the reply of
\* GetAll; try! returns an Err at once, and a panic ends the thread.
RECURSIVE adapter_loop(_, _, _)
adapter_loop(adapters, props, n) ==
    IF adapters = <<>> THEN OkOf(None)
    ELSE LET p == Adapter_get_properties(props[Head(adapters)])
         IN  IF p[1] # "Ok" THEN p
             ELSE IF p[2].address = n \/ p[2].alias = n \/ p[2].name = n
                  THEN OkOf(Some(Head(adapters)))
                  ELSE adapter_loop(Tail(adapters), props, n)

\* adapter.rs:205-219
find_adapter(resp, props, name_or_addr) ==
    LET adapters == get_adapters(resp)
    IN  IF adapters[1] # "Ok" THEN adapters
        ELSE IF name_or_addr # None
             THEN adapter_loop(adapters[2], props, name_or_addr[1])
             ELSE OkOf(IF adapters[2] = <<>> THEN None
                       ELSE Some(Head(adapters[2])))

\* device.rs:44-51
RECURSIVE device_loop(_, _, _)
device_loop(devices, props, n) ==
    IF devices = <<>> THEN OkOf(None)
    ELSE LET p == Device_get_properties(props[Head(devices)])
         IN  IF p[1] # "Ok" THEN p
             ELSE IF \/ p[2].address = n
                     \/ p[2].alias = n
                     \/ (p[2].name # None /\ p[2].name[1] = n)
                  THEN OkOf(Some(Head(devices)))
                  ELSE device_loop(Tail(devices), props, n)

\* device.rs:41-52
Device_find(adapter_path, resp, props, name_or_addr) ==
    LET devices == get_devices(adapter_path, resp)
    IN  IF devices[1] # "Ok" THEN devices
        ELSE device_loop(devices[2], props, name_or_addr)

\* A whole dictionary with the given address, alias and name.
NamedMap(fields, address, alias, name) ==
    [n \in DOMAIN fields |->
        CASE n = "Address" -> MStr(address)
          [] n = "Alias" -> MStr(alias)
          [] n = "Name" -> MStr(name)
          [] OTHER -> GoodValue(fields[n])]

\* The same without the fields of the set gone.
Without(map, gone) == [n \in (DOMAIN map) \ gone |-> map[n]]

\* What GetAll may reply for an object that a search reads: the searched
\* text "b" as its address, its alias, its name or nowhere; no name at all
\* (a device); no alias; an error of the bus.
SearchedReplies(fields) ==
    { GetAllOk(NamedMap(fields, "b", "a", "a")),
      GetAllOk(NamedMap(fields, "a", "b", "a")),
      GetAllOk(NamedMap(fields, "a", "a", "b")),
      GetAllOk(NamedMap(fields, "a", "a", "a")),
      GetAllOk(Without(NamedMap(fields, "a", "a", "a"), {"Name"})),
      GetAllOk(Without(NamedMap(fields, "a", "a", "b"), {"Alias"})),
      GetAllErr }

Range(s) == {s[k] : k \in DOMAIN s}

\* A reply listing the given paths, each with the one interface.
ListingOf(paths, iface) ==
    Reply(<<MArray([k \in 1..Len(paths) |-> ObjectEntry(paths[k], <<iface>>)])>>)

\* The bus as a search sees it: the listing of up to n objects and,
\* for each of them, the reply of GetAll; or a listing that fails.
Buses(paths, iface, fields, n) ==
    {[resp |-> TransportErr, props |-> <<>>]}
    \cup UNION {
        {[resp |-> ListingOf(ps, iface), props |-> f] :
            f \in [Range(ps) -> SearchedReplies(fields)]} :
        ps \in SeqsUpTo(paths, n) }

\* The adapters a search enumerates; the adapter whose devices are searched,
\* and the objects listed to that search: two of its devices and a device of
\* another adapter.
SearchedAdapters == { <<"/", "0">>, <<"/", "0", "0">> }
SearchedAdapter == <<"/", "0">>
SearchedDevices ==
    { <<"/", "0", "/", "0">>, <<"/", "0", "/", "0", "0">>,
      <<"/", "0", "0", "/", "0">> }

----------------------------------------------------------------------------
(* The library functions as a specification: a call with arguments drawn  *)
(* from bounded sets, then the function applied to them.                   *)

session == <<object_path, duration, pc, matches, calls, elapsed, i, found, result>>

EnumerationCalls(n) ==
    {[fn |-> "get_adapters", resp |-> r] : r \in Replies(n)}
    \cup {[fn |-> "get_devices", adapter |-> a, resp |-> r] :
            a \in AdapterPaths, r \in Replies(n)}

PropertyCalls(max) ==
    {[fn |-> "Adapter::get_properties", reply |-> r] : r \in AdapterReplies(max)}
    \cup {[fn |-> "Device::get_properties", reply |-> r] : r \in DeviceReplies(max)}

FindCalls(n) ==
    {[fn |-> "find_adapter", resp |-> b.resp, props |-> b.props, name |-> m] :
        b \in Buses(SearchedAdapters, ADAPTER_INTERFACE, AdapterFields, n),
        m \in {None, Some("b")}}
    \cup {[fn |-> "Device::find", adapter |-> SearchedAdapter, resp |-> b.resp,
           props |-> b.props, name |-> "b"] :
            b \in Buses(SearchedDevices, DEVICE_INTERFACE, DeviceFields, n)}

\* Device::new takes any text as the object path.
HandleCalls(n) ==
    {[fn |-> "Device::new", path |-> p] : p \in Strings(n)}
    \cup {[fn |-> "Device::adapter_object_path", path |-> p] : p \in Strings(n)}

LibCalls(objects, defects, length) ==
    EnumerationCalls(objects) \cup PropertyCalls(defects)
        \cup FindCalls(objects) \cup HandleCalls(length)

InitLib ==
    /\ object_path = <<"/">>
    /\ duration = 0
    /\ pc = "NotStarted"
    /\ matches = [f \in Filters |-> 0]
    /\ calls = <<>>
    /\ elapsed = 0
    /\ i = NoItem
    /\ found = <<>>
    /\ result = Pending
    /\ api \in LibCalls(MaxObjects, MaxDefects, MaxPathLen)
    /\ ret = Pending

call_get_adapters ==
    /\ api.fn = "get_adapters"
    /\ ret = Pending
    /\ ret' = get_adapters(api.resp)
    /\ UNCHANGED <<api, session>>

call_get_devices ==
    /\ api.fn = "get_devices"
    /\ ret = Pending
    /\ ret' = get_devices(api.adapter, api.resp)
    /\ UNCHANGED <<api, session>>

call_adapter_get_properties ==
    /\ api.fn = "Adapter::get_properties"
    /\ ret = Pending
    /\ ret' = Adapter_get_properties(api.reply)
    /\ UNCHANGED <<api, session>>

call_device_get_properties ==
    /\ api.fn = "Device::get_properties"
    /\ ret = Pending
    /\ ret' = Device_get_properties(api.reply)
    /\ UNCHANGED <<api, session>>

call_find_adapter ==
    /\ api.fn = "find_adapter"
    /\ ret = Pending
    /\ ret' = find_adapter(api.resp, api.props, api.name)
    /\ UNCHANGED <<api, session>>

call_device_find ==
    /\ api.fn = "Device::find"
    /\ ret = Pending
    /\ ret' = Device_find(api.adapter, api.resp, api.props, api.name)
    /\ UNCHANGED <<api, session>>

\* device.rs:37-39: the handle, modelled by the path it keeps
call_device_new ==
    /\ api.fn = "Device::new"
    /\ ret = Pending
    /\ ret' = Value(Device_new(api.path))
    /\ UNCHANGED <<api, session>>

\* device.rs:58-60, on a handle with the given path
call_adapter_object_path ==
    /\ api.fn = "Device::adapter_object_path"
    /\ ret = Pending
    /\ ret' = Value(adapter_object_path(api.path))
    /\ UNCHANGED <<api, session>>

NextLib ==
    \/ call_device_new
    \/ call_adapter_object_path
    \/ call_get_adapters
    \/ call_get_devices
    \/ call_adapter_get_properties
    \/ call_device_get_properties
    \/ call_find_adapter
    \/ call_device_find

SpecLib == InitLib /\ [][NextLib]_vars

----------------------------------------------------------------------------
(* Vocabulary of the properties, stated apart from the code's own tests *)

Count(op) == Cardinality({k \in DOMAIN calls : calls[k] = op})
Issued(op) == Count(op) > 0

\* StartDiscovery has succeeded: the loop has been entered.
LoopEntered ==
    /\ Issued("StartDiscovery")
    /\ pc # "start_discovery"
    /\ result # Err("StartDiscovery")
InLoop == pc \in {"poll", "process", "check_duration"}
LeftLoop == LoopEntered /\ ~InLoop
NoneRegistered == \A f \in Filters : matches[f] = 0
\* The loop was left because the iterator ended: no item is in hand.
StreamEnded == LeftLoop /\ i = NoItem

\* p is a + "/" + segment, the segment holding no separator.
IsDirectChild(p, a) ==
    /\ Len(p) > Len(a) + 1
    /\ SubSeq(p, 1, Len(a)) = a
    /\ p[Len(a) + 1] = "/"
    /\ \A k \in (Len(a) + 2)..Len(p) : p[k] # "/"

IsSignal(item, member) == item.kind = "Signal" /\ item.member = member
SignalledPath(item) == item.items[1].v
ChangedInterface(item) == item.items[1].v
Carries(item, iface) ==
    \E k \in DOMAIN item.items[2].v : item.items[2].v[k].k.v = iface
\* the changed-property list holds Discovering = false, at any position
HasDiscoveringFalse(item) ==
    \E k \in DOMAIN item.items[2].v :
        /\ item.items[2].v[k].k.v = "Discovering"
        /\ item.items[2].v[k].v.v = MBool(FALSE)

\* A device announced directly under adapter a.
IsDeviceSignalUnder(item, a) ==
    /\ IsSignal(item, "InterfacesAdded")
    /\ Carries(item, DEVICE_INTERFACE)
    /\ IsDirectChild(SignalledPath(item), a)

\* The adapter at path a reports that it stopped discovering.
IsStoppedSignal(item, a) ==
    /\ IsSignal(item, "PropertiesChanged")
    /\ item.path = a
    /\ ChangedInterface(item) = ADAPTER_INTERFACE
    /\ HasDiscoveringFalse(item)

\* An item that matches neither rule of the loop.
IsIgnorable(item, a) ==
    \/ item.kind # "Signal"
    \/ /\ item.kind = "Signal"
       /\ item.member \notin {"PropertiesChanged", "InterfacesAdded"}
    \/ /\ IsSignal(item, "PropertiesChanged")
       /\ \/ item.path # a
          \/ ChangedInterface(item) # ADAPTER_INTERFACE
          \/ ~HasDiscoveringFalse(item)
    \/ /\ IsSignal(item, "InterfacesAdded")
       /\ ~Carries(item, DEVICE_INTERFACE)

\* The session takes the step that handles item i (adapter.rs:96-144), or
\* the duration check that follows it (adapter.rs:146).
Handles == pc = "process" /\ pc' # "process"
Checks == pc = "check_duration" /\ pc' # "check_duration"

\* The bound of a session with duration d > 0 is met after ms milliseconds.
BoundMet(d, ms) == d > 0 /\ ms >= d * 1000

----------------------------------------------------------------------------
(* Properties *)

\* C1: when StartDiscovery fails after both filters were registered, no
\* filter registered by the session is still registered once the error has
\* been returned.
C1_StartFailureUnregisters ==
    result = Err("StartDiscovery") => NoneRegistered

\* C2: once the loop has been entered, the session does not return without
\* having attempted to unregister both filters, whichever way the loop was
\* left (Discovering = false, bound reached with StopDiscovery succeeding,
\* bound reached with StopDiscovery failing).
C2_EveryExitUnregisters ==
    (pc = "returned" /\ LoopEntered) =>
        (Issued("RemoveMatch1") /\ Issued("RemoveMatch2"))

\* C3: when registering either filter fails, StartDiscovery is never issued
\* and no filter registered by the session is left registered when the
\* error is returned.
C3_FailedRegistrationLeavesNothing ==
    result \in {Err("AddMatch1"), Err("AddMatch2")} =>
        (~Issued("StartDiscovery") /\ NoneRegistered)

\* C4: the callback is invoked only while an InterfacesAdded signal that
\* carries the device interface is handled, and only when the signalled
\* object path lies directly under the session's adapter; every device ever
\* reported lies directly under that adapter.
C4_CallbackOnlyForOwnDevices ==
    /\ [][found' # found =>
            /\ pc = "process"
            /\ IsDeviceSignalUnder(i, object_path)
            /\ \E n \in 1..Len(found') :
                  found' = found \o [k \in 1..n |-> SignalledPath(i)]]_vars
    /\ [](\A k \in DOMAIN found : IsDirectChild(found[k], object_path))

\* A device announced under another adapter, one whose path only shares a
\* prefix with the session's, has been handled after an earlier report and
\* was not reported.
C4_Witness ==
    /\ pc = "check_duration"
    /\ IsSignal(i, "InterfacesAdded")
    /\ Carries(i, DEVICE_INTERFACE)
    /\ IsDirectChild(SignalledPath(i), object_path \o <<"0">>)
    /\ Len(found) = 1
    /\ found[1] # SignalledPath(i)

\* C5: handling an InterfacesAdded signal that carries the device interface
\* and an object path directly under the session's adapter invokes the
\* callback exactly once, with that path; every item the iterator yields
\* while the loop runs is handled before the next one is taken.
C5_EveryOwnDeviceReportedOnce ==
    /\ [][(Handles /\ IsDeviceSignalUnder(i, object_path)) =>
            found' = Append(found, SignalledPath(i))]_vars
    /\ [][(pc = "poll" /\ i' # i) => pc' = "process"]_vars
    /\ [][Handles => i' = i]_vars

\* A second device has been reported, its interface listed after another.
C5_Witness ==
    /\ pc = "check_duration"
    /\ IsDeviceSignalUnder(i, object_path)
    /\ Len(i.items[2].v) = 2
    /\ Len(found) = 2
    /\ found[2] = SignalledPath(i)
    /\ found[1] # found[2]

\* C6, as first stated: after Discovering = false for the adapter the
\* session has issued no StopDiscovery, has both filters unregistered and
\* returns success.
C6_Original ==
    (pc = "returned" /\ LoopEntered /\ IsStoppedSignal(i, object_path)) =>
        /\ ~Issued("StopDiscovery")
        /\ NoneRegistered
        /\ result = Ok

\* C6, amended: handling Discovering = false for the adapter (at any
\* position of the list) ends the loop without StopDiscovery and takes the
\* session to the unregistration of the filters; it returns success with
\* both filters unregistered when both unregistrations succeed, and
\* otherwise the error of the unregistration that failed.
C6_StoppedSignalEndsLoop ==
    /\ [][(Handles /\ IsStoppedSignal(i, object_path)) =>
            (pc' = "remove_match1" /\ calls' = calls /\ found' = found)]_vars
    /\ []((LeftLoop /\ IsStoppedSignal(i, object_path)) =>
            /\ ~Issued("StopDiscovery")
            /\ Issued("RemoveMatch1") \/ pc = "remove_match1"
            /\ pc = "returned" =>
                  /\ result \in {Ok, Err("RemoveMatch1"), Err("RemoveMatch2")}
                  /\ result = Ok => (NoneRegistered /\ Count("RemoveMatch2") = 1))

\* Discovering = false came second in the list; the session returned Ok.
C6_Witness ==
    /\ pc = "returned"
    /\ result = Ok
    /\ IsStoppedSignal(i, object_path)
    /\ Len(i.items[2].v) = 2
    /\ i.items[2].v[2].k.v = "Discovering"
    /\ NoneRegistered

\* C7, as first stated: a session with duration bound 0 never issues
\* StopDiscovery, and the only event that ends its loop is the adapter's
\* Discovering = false.
C7_Original ==
    (duration = 0) =>
        /\ ~Issued("StopDiscovery")
        /\ pc # "stop_discovery"
        /\ LeftLoop => IsStoppedSignal(i, object_path)

\* C7, amended: a session with duration bound 0 never issues StopDiscovery
\* and never leaves its loop because of elapsed time; its loop ends only on
\* the adapter's Discovering = false or when the connection's stream ends.
C7_ZeroDurationNeverTimesOut ==
    (duration = 0) =>
        /\ ~Issued("StopDiscovery")
        /\ pc # "stop_discovery"
        /\ LeftLoop => (IsStoppedSignal(i, object_path) \/ StreamEnded)

\* An unbounded session is still in its loop with the clock at its end.
C7_Witness ==
    /\ duration = 0
    /\ pc = "check_duration"
    /\ elapsed + TickMs > MaxElapsed
    /\ Len(found) = 1

\* An unbounded session left its loop when the stream ended, after a
\* report and with the clock at its end, and returned success.
C7_WitnessStreamEnded ==
    /\ duration = 0
    /\ pc = "returned"
    /\ result = Ok
    /\ StreamEnded
    /\ Len(found) = 1
    /\ elapsed + TickMs > MaxElapsed

\* C8: a session with duration bound N > 0 leaves its loop by issuing
\* StopDiscovery at the first iteration whose duration check finds at least
\* N seconds elapsed (and not before), and the session eventually returns:
\* timed out, stopped by the adapter, or at the end of the stream.
C8_BoundedSessionTerminates ==
    /\ [][(Checks /\ BoundMet(duration, elapsed)) =>
            pc' = "stop_discovery"]_vars
    /\ [][(Checks /\ ~BoundMet(duration, elapsed)) =>
            pc' = "poll"]_vars
    /\ [][pc = "stop_discovery" =>
            (calls' = Append(calls, "StopDiscovery") /\ pc' \notin {"poll", "process", "check_duration"})]_vars
    /\ [][pc' = "stop_discovery" => pc = "check_duration"]_vars
    /\ ((InLoop /\ duration > 0) ~>
            (pc = "returned"
                /\ \/ Issued("StopDiscovery")
                   \/ IsStoppedSignal(i, object_path)
                   \/ StreamEnded))

\* A bounded session that saw no Discovering = false has timed out and
\* returned.
C8_Witness ==
    /\ pc = "returned"
    /\ duration > 0
    /\ Len(calls) = 6
    /\ calls[4] = "StopDiscovery"
    /\ elapsed = duration * 1000
    /\ result = Ok

\* C9: after a session with duration bound N > 0 has timed out and
\* returned, each of the two filters has been unregistered exactly once.
C9_TimedOutUnregistersOnce ==
    (pc = "returned" /\ duration > 0 /\ Issued("StopDiscovery")) =>
        (Count("RemoveMatch1") = 1 /\ Count("RemoveMatch2") = 1)

\* C10: an item that matches neither rule neither ends the loop nor invokes
\* the callback, and the session keeps running unless its bound is met.
C10_OtherItemsIgnored ==
    /\ [][(Handles /\ IsIgnorable(i, object_path)) =>
            (pc' = "check_duration" /\ found' = found /\ calls' = calls)]_vars
    /\ [][(Checks /\ IsIgnorable(i, object_path)
              /\ ~BoundMet(duration, elapsed)) =>
            pc' = "poll"]_vars

\* Discovering = false for the adapter interface, emitted on another path,
\* has been handled and the loop goes on.
C10_Witness ==
    /\ pc = "check_duration"
    /\ IsSignal(i, "PropertiesChanged")
    /\ i.path # object_path
    /\ ChangedInterface(i) = ADAPTER_INTERFACE
    /\ HasDiscoveringFalse(i)
    /\ ~BoundMet(duration, elapsed)
    /\ result = Pending

----------------------------------------------------------------------------
(* Vocabulary of the enumeration properties *)

IsEnumeration == api.fn \in {"get_adapters", "get_devices"}
Returned == ret # Pending
ReturnedOk == ret[1] = "Ok"
Aborted == ret[1] = "Panic"

\* The root and the interface an enumeration call asks for.
Root == IF api.fn \in {"get_adapters", "find_adapter"} THEN <<"/">> ELSE api.adapter
Target ==
    IF api.fn \in {"get_adapters", "find_adapter"} THEN ADAPTER_INTERFACE
    ELSE DEVICE_INTERFACE

\* p begins with the text q.
BeginsWith(p, q) ==
    /\ Len(q) <= Len(p)
    /\ \A k \in 1..Len(q) : p[k] = q[k]

\* The root, closed by a separator unless it already ends with one.
Closed(root) == IF root[Len(root)] = "/" THEN root ELSE root \o <<"/">>

\* The reply's last argument is a list of {path: {interface: ...}} entries.
IsEntryList(resp) ==
    /\ resp.ok
    /\ resp.items # <<>>
    /\ LET arg == resp.items[Len(resp.items)]
       IN  /\ arg.t = "Array"
           /\ \A k \in 1..Len(arg.v) :
                /\ arg.v[k].t = "DictEntry"
                /\ arg.v[k].k.t = "ObjectPath"
                /\ arg.v[k].v.t = "Array"
                /\ \A j \in 1..Len(arg.v[k].v.v) :
                     /\ arg.v[k].v.v[j].t = "DictEntry"
                     /\ arg.v[k].v.v[j].k.t = "Str"

\* The entries of such a reply, the path of the k-th, the name of its j-th
\* interface.
Listed == api.resp.items[Len(api.resp.items)].v
ListedPath(k) == Listed[k].k.v
ListedIface(k, j) == Listed[k].v.v[j].k.v

\* Positions <<k, j>> of the (path, interface) pairs of the reply.
Pairs ==
    UNION {{<<k, j>> : j \in 1..Len(Listed[k].v.v)} : k \in 1..Len(Listed)}

\* The pairs that name the target interface under the closed root.
Wanted ==
    {kj \in Pairs : /\ ListedIface(kj[1], kj[2]) = Target
                    /\ BeginsWith(ListedPath(kj[1]), Closed(Root))}

\* The place of a wanted pair among the wanted pairs, in reply order.
Rank(kj) ==
    Cardinality({m \in Wanted : \/ m[1] < kj[1]
                                \/ (m[1] = kj[1] /\ m[2] <= kj[2])})

\* C11 as stated: every returned path is the root or begins with the root
\* followed by a separator, and its entry listed the interface.
C11_Original ==
    (IsEnumeration /\ Returned /\ ReturnedOk) =>
        \A n \in 1..Len(ret[2]) :
            /\ \/ ret[2][n] = Root
               \/ BeginsWith(ret[2][n], Root \o <<"/">>)
            /\ \E kj \in Pairs : /\ ListedPath(kj[1]) = ret[2][n]
                                 /\ ListedIface(kj[1], kj[2]) = Target

\* C11: every path an enumeration returns begins with the root closed by a
\* separator (the root itself when it already ends with one, as "/" does),
\* and the reply's entry for that path listed the interface asked for; so a
\* path that only shares a prefix of characters with the root is not
\* returned.
C11_ReturnedUnderClosedRoot ==
    (IsEnumeration /\ Returned /\ ReturnedOk) =>
        \A n \in 1..Len(ret[2]) :
            /\ BeginsWith(ret[2][n], Closed(Root))
            /\ \E kj \in Pairs : /\ ListedPath(kj[1]) = ret[2][n]
                                 /\ ListedIface(kj[1], kj[2]) = Target
            /\ ~(/\ Root[Len(Root)] # "/"
                 /\ BeginsWith(ret[2][n], Root)
                 /\ Len(ret[2][n]) > Len(Root)
                 /\ ret[2][n][Len(Root) + 1] # "/")

\* The devices of /0 were asked for; the reply lists a device at the
\* sibling /00 and one at /0/0, and only the latter is returned.
C11_Witness ==
    /\ api.fn = "get_devices"
    /\ api.adapter = <<"/", "0">>
    /\ Returned
    /\ ReturnedOk
    /\ Len(Listed) = 2
    /\ ListedPath(1) = <<"/", "0", "0">>
    /\ ListedIface(1, Len(Listed[1].v.v)) = DEVICE_INTERFACE
    /\ ret[2] = << <<"/", "0", "/", "0">> >>

\* C12: the returned sequence holds one handle for each (path, interface)
\* pair of the reply that names the target interface under the closed root,
\* no other, in the order of the reply.
C12_OnePerPairInReplyOrder ==
    (IsEnumeration /\ Returned /\ ReturnedOk) =>
        /\ Len(ret[2]) = Cardinality(Wanted)
        /\ \A kj \in Wanted : ret[2][Rank(kj)] = ListedPath(kj[1])

\* Two adapters are returned in the order of the reply, which is not the
\* order of their paths, each from an entry that lists the interface once.
C12_Witness ==
    /\ api.fn = "get_adapters"
    /\ Returned
    /\ ReturnedOk
    /\ Len(Listed) = 2
    /\ ret[2] = << <<"/", "0", "0">>, <<"/", "0">> >>

\* C13: an enumeration whose call failed in the transport, or whose reply is
\* not a list of entries, returns an error value (and so no handles).
C13_BadReplyIsAnError ==
    (IsEnumeration /\ Returned /\ ~IsEntryList(api.resp)) => ret[1] = "Err"

----------------------------------------------------------------------------
(* Vocabulary of the snapshot properties *)

IsProjection == api.fn \in {"Adapter::get_properties", "Device::get_properties"}
OfAdapter == api.fn = "Adapter::get_properties"

\* The dictionary the bus replied with, and the fields its interface has.
Props == api.reply.props
Published == IF OfAdapter THEN AdapterFields ELSE DeviceFields

\* Required and optional fields, as the specification lists them.
RequiredFields ==
    {"Address", "Alias", "Powered", "Paired", "Connected", "Trusted",
     "Blocked", "Discovering", "LegacyPairing"}
OptionalFields ==
    {"Name", "Icon", "Class", "Appearance", "Modalias", "RSSI", "UUIDs"}

\* The one tag of a bus value of the type T.
Tagged(T) ==
    CASE T = "str" -> "Str"
      [] T = "bool" -> "Bool"
      [] T = "u32" -> "UInt32"
      [] T = "u16" -> "UInt16"
      [] T = "i16" -> "Int16"
      [] T = "slice" -> "Array"
ValueTypes == {"str", "bool", "u32", "u16", "i16", "slice"}

\* The field n is in the dictionary; it has the type its interface declares.
Present(n) == n \in DOMAIN Props
Typed(n) == Present(n) /\ Props[n].t = Tagged(Published[n])
AllStrings(xs) == \A k \in 1..Len(xs) : xs[k].t = "Str"
Intact(n) == Typed(n) /\ (n = "UUIDs" => AllStrings(Props[n].v))

\* The snapshot's field for a property.
SnapshotField(n) ==
    CASE n = "Name" -> "name"
      [] n = "Icon" -> "icon"
      [] n = "Class" -> "class"
      [] n = "Appearance" -> "appearance"
      [] n = "Modalias" -> "modalias"
      [] n = "RSSI" -> "rssi"
      [] n = "UUIDs" -> "uuids"

\* The snapshot s holds nothing for the optional field n.
Absent(s, n) == s[SnapshotField(n)] = <<>>

\* C14: a dictionary that lacks one optional field and is otherwise whole
\* yields a snapshot with that field absent; a dictionary that lacks a
\* required field yields no snapshot.
C14_OptionalMayBeMissing ==
    (IsProjection /\ Returned /\ api.reply.ok) =>
        /\ \A o \in OptionalFields \cap DOMAIN Published :
              (~Present(o) /\ \A n \in DOMAIN Published \ {o} : Intact(n))
                  => (ReturnedOk /\ Absent(ret[2], o))
        /\ \A r \in RequiredFields \cap DOMAIN Published :
              ~Present(r) => ~ReturnedOk

\* C16: a UUID list that is an array is decoded element by element; with an
\* element that is no string there is no snapshot, and a snapshot that is
\* returned holds every element of the array, in order.
C16_UuidListNeverTruncated ==
    (IsProjection /\ Returned /\ api.reply.ok /\ Present("UUIDs")
        /\ Props["UUIDs"].t = "Array") =>
        /\ ~AllStrings(Props["UUIDs"].v) => ~ReturnedOk
        /\ ReturnedOk =>
              /\ Len(ret[2].uuids) = Len(Props["UUIDs"].v)
              /\ \A k \in 1..Len(ret[2].uuids) :
                    ret[2].uuids[k] = Props["UUIDs"].v[k].v

\* A device's dictionary is whole but for the second element of its UUID
\* list, which is a number: there is no snapshot.
C16_Witness ==
    /\ api.fn = "Device::get_properties"
    /\ Returned
    /\ api.reply.ok
    /\ \A n \in DOMAIN Published \ {"UUIDs"} : Intact(n)
    /\ Typed("UUIDs")
    /\ Len(Props["UUIDs"].v) = 2
    /\ Props["UUIDs"].v[1].t = "Str"
    /\ Props["UUIDs"].v[2].t = "UInt32"
    /\ ~ReturnedOk

\* C17: _get_prop hands out the payload of a value, unchanged, when the
\* value has the tag of the requested type, and nothing otherwise; so an
\* optional field (name, icon, class, appearance, modalias, RSSI, UUID list)
\* that is present with another type, in a dictionary otherwise whole, is
\* stored as absent and does not make the projection fail.
C17_DecoderChecksTheTag ==
    (IsProjection /\ api.reply.ok) =>
        /\ \A n \in DOMAIN Published, T \in ValueTypes :
              _get_prop(Props, n, T) =
                  IF Present(n) /\ Props[n].t = Tagged(T)
                  THEN <<Props[n].v>> ELSE <<>>
        /\ Returned =>
              \A o \in OptionalFields \cap DOMAIN Published :
                  (/\ Present(o) /\ ~Typed(o)
                   /\ \A n \in DOMAIN Published \ {o} : Intact(n))
                      => (ReturnedOk /\ Absent(ret[2], o))

\* A device's Class is present as a string: the snapshot is returned with
\* no class, and the same value asked for as a string is its content.
C17_Witness ==
    /\ api.fn = "Device::get_properties"
    /\ Returned
    /\ api.reply.ok
    /\ Present("Class")
    /\ Props["Class"].t = "Str"
    /\ \A n \in DOMAIN Published \ {"Class"} : Intact(n)
    /\ ReturnedOk
    /\ ret[2].class = <<>>
    /\ _get_prop(Props, "Class", "u32") = <<>>
    /\ _get_prop(Props, "Class", "str") = <<Props["Class"].v>>

----------------------------------------------------------------------------
(* Vocabulary of the search properties *)

IsFind == api.fn \in {"find_adapter", "Device::find"}

\* The handles of the enumeration a search starts with: the wanted pairs of
\* the reply, in reply order.
Enumeration ==
    [n \in 1..Cardinality(Wanted) |->
        ListedPath((CHOOSE kj \in Wanted : Rank(kj) = n)[1])]

\* The text searched for, if any.
Searched == IF api.fn = "find_adapter" THEN api.name ELSE <<api.name>>

\* Reading the properties of the object at p, and whether that gave a
\* snapshot.
Read(p) ==
    IF api.fn = "find_adapter" THEN Adapter_get_properties(api.props[p])
    ELSE Device_get_properties(api.props[p])
ReadOk(p) == Read(p)[1] = "Ok"

\* The address, the alias or the name of the object at p is the text n.
Equals(p, n) ==
    LET s == Read(p)[2]
    IN  \/ s.address = n
        \/ s.alias = n
        \/ IF api.fn = "find_adapter" THEN s.name = n ELSE s.name = <<n>>

\* C18: a search without a name returns the first enumerated adapter, or
\* absent when there is none; a search with a name returns the first handle,
\* in enumeration order, whose address, alias or name is that text, the
\* properties having been read successfully up to it, and Ok(absent) when
\* all properties were read successfully and none matched.
C18_SearchReturnsFirstOrAbsent ==
    (IsFind /\ Returned /\ IsEntryList(api.resp)) =>
        /\ Searched = <<>> =>
              ret = OkOf(IF Enumeration = <<>> THEN <<>> ELSE <<Enumeration[1]>>)
        /\ Searched # <<>> =>
              /\ \A k \in 1..Len(Enumeration) :
                    (/\ \A j \in 1..k : ReadOk(Enumeration[j])
                     /\ Equals(Enumeration[k], Searched[1])
                     /\ \A j \in 1..(k - 1) : ~Equals(Enumeration[j], Searched[1]))
                        => ret = OkOf(<<Enumeration[k]>>)
              /\ (\A k \in 1..Len(Enumeration) :
                     /\ ReadOk(Enumeration[k])
                     /\ ~Equals(Enumeration[k], Searched[1]))
                        => ret = OkOf(<<>>)

\* Two adapters are enumerated and both carry the searched text, the first
\* as its alias: the first is returned.
C18_Witness ==
    /\ api.fn = "find_adapter"
    /\ Returned
    /\ IsEntryList(api.resp)
    /\ Searched # <<>>
    /\ Len(Enumeration) = 2
    /\ Enumeration[1] # Enumeration[2]
    /\ ReadOk(Enumeration[1])
    /\ ReadOk(Enumeration[2])
    /\ Read(Enumeration[1])[2].alias = Searched[1]
    /\ Equals(Enumeration[2], Searched[1])
    /\ ret = OkOf(<<Enumeration[1]>>)

\* A device search reads both devices of the adapter, neither carries the
\* searched text, and the result is Ok(absent).
C18_WitnessAbsent ==
    /\ api.fn = "Device::find"
    /\ Returned
    /\ IsEntryList(api.resp)
    /\ Len(Enumeration) = 2
    /\ \A k \in 1..2 : ReadOk(Enumeration[k]) /\ ~Equals(Enumeration[k], Searched[1])
    /\ ret = OkOf(<<>>)

----------------------------------------------------------------------------
(* Failures as values *)

\* C15: no operation aborts the calling thread: a session that receives a
\* signal of an unexpected shape goes on or returns, and get_properties on
\* a dictionary with a missing or mistyped required field returns.
C15_NeverAborts ==
    /\ pc # "panicked"
    /\ ret[1] # "Panic"

----------------------------------------------------------------------------
(* Handles and their paths *)

\* p is P, a separator, and a segment that holds no separator.
SplitsInto(p, P, segment) ==
    /\ p = P \o <<"/">> \o segment
    /\ \A k \in 1..Len(segment) : segment[k] # "/"
IsAbsolute(p) == Len(p) >= 1 /\ p[1] = "/"

\* C19: for every absolute path P + "/" + segment, the segment holding no
\* separator, adapter_object_path returns exactly P.
C19_ParentIsBeforeLastSegment ==
    (api.fn = "Device::adapter_object_path" /\ Returned /\ IsAbsolute(api.path)) =>
        \A P \in Strings(MaxPathLen), segment \in Strings(MaxPathLen) :
            SplitsInto(api.path, P, segment) => ret[2] = P

\* The path /0/00 has yielded /0.
C19_Witness ==
    /\ api.fn = "Device::adapter_object_path"
    /\ Returned
    /\ api.path = <<"/", "0", "/", "0", "0">>
    /\ SplitsInto(api.path, <<"/", "0">>, <<"0", "0">>)
    /\ ret[2] = <<"/", "0">>

\* C20: every handle has a path that is not empty and begins with "/",
\* whether it comes from Device::new, from an enumeration or from the
\* session's loop.
C20_HandlePathsAreAbsolute ==
    /\ (api.fn = "Device::new" /\ Returned) => IsAbsolute(ret[2])
    /\ (IsEnumeration /\ Returned /\ ReturnedOk) =>
            \A n \in 1..Len(ret[2]) : IsAbsolute(ret[2][n])
    /\ \A n \in 1..Len(found) : IsAbsolute(found[n])

----------------------------------------------------------------------------
(* The order of the session's bus operations *)

\* The place of a bus operation in the session's sequence.
Stage(op) ==
    CASE op = "AddMatch1" -> 1
      [] op = "AddMatch2" -> 2
      [] op = "StartDiscovery" -> 3
      [] op = "StopDiscovery" -> 4
      [] op = "RemoveMatch1" -> 5
      [] op = "RemoveMatch2" -> 6

\* The session issues the bus operation op in this step.
Issues(op) == calls' = Append(calls, op)

\* The session takes an item from the connection in this step.
Reads == i' # i /\ i' # NoItem

\* C21: the bus operations of a run occur in the order InterfacesAdded
\* filter, PropertiesChanged filter, StartDiscovery, loop, unregistrations;
\* StartDiscovery is issued only with both filters registered, items are read
\* only after StartDiscovery has succeeded and before any unregistration, and
\* a filter is unregistered only after the loop has been left.
C21_BusOperationsInOrder ==
    /\ [](\A k \in DOMAIN calls : \A m \in DOMAIN calls :
            k < m => Stage(calls[k]) < Stage(calls[m]))
    /\ [][matches'[filter2] > matches[filter2] => matches[filter1] = 1]_vars
    /\ [][Issues("StartDiscovery") =>
            (matches[filter1] = 1 /\ matches[filter2] = 1)]_vars
    /\ [][Reads =>
            /\ LoopEntered /\ InLoop
            /\ ~Issued("StopDiscovery")
            /\ ~Issued("RemoveMatch1") /\ ~Issued("RemoveMatch2")]_vars
    /\ []((Issued("RemoveMatch1") \/ Issued("RemoveMatch2")) => LeftLoop)
    /\ [](Issued("StopDiscovery") => LeftLoop)

\* A run that went through every stage but StopDiscovery: a device was
\* reported, then the adapter stopped, and both filters were unregistered.
C21_Witness ==
    /\ pc = "returned"
    /\ calls = <<"AddMatch1", "AddMatch2", "StartDiscovery",
                 "RemoveMatch1", "RemoveMatch2">>
    /\ Len(found) = 1
    /\ IsStoppedSignal(i, object_path)
    /\ NoneRegistered

----------------------------------------------------------------------------
(* No retries *)

\* The session is past its StartDiscovery call, whatever that call returned.
PastStartDiscovery ==
    /\ pc \notin {"NotStarted", "add_match1", "add_match2", "start_discovery"}
    /\ result \notin {Err("AddMatch1"), Err("AddMatch2")}

\* The session has returned the error of op: op was its last bus operation
\* and was issued once.
Propagated(op) ==
    result = Err(op) =>
        /\ pc = "returned"
        /\ Count(op) = 1
        /\ calls[Len(calls)] = op

\* C22: a run never issues StartDiscovery or StopDiscovery twice; a run that
\* reached its StartDiscovery call has issued it exactly once; StopDiscovery
\* is issued only when a positive bound has elapsed; a failure of either
\* ends the run with that error, no further bus operation being issued.
C22_NothingIsRetried ==
    /\ [](Count("StartDiscovery") <= 1 /\ Count("StopDiscovery") <= 1)
    /\ [](PastStartDiscovery => Count("StartDiscovery") = 1)
    /\ [](Issued("StopDiscovery") => BoundMet(duration, elapsed))
    /\ [](Propagated("StartDiscovery") /\ Propagated("StopDiscovery"))
    /\ [][(Issues("StartDiscovery") /\ pc' # "poll") =>
            (pc' = "returned" /\ result' = Err("StartDiscovery"))]_vars
    /\ [][(Issues("StopDiscovery") /\ pc' # "remove_match1") =>
            (pc' = "returned" /\ result' = Err("StopDiscovery"))]_vars
    /\ [][pc = "returned" => (pc' = "returned" /\ calls' = calls)]_vars

\* StopDiscovery failed once the bound had elapsed, and the run returned
\* its error after a single attempt.
C22_Witness ==
    /\ pc = "returned"
    /\ result = Err("StopDiscovery")
    /\ calls = <<"AddMatch1", "AddMatch2", "StartDiscovery", "StopDiscovery">>
    /\ BoundMet(duration, elapsed)

----------------------------------------------------------------------------
(* The duration check comes after the item *)

\* C23: the duration is tested only after the current item has been handled.
\* A device signal of the adapter handled when the bound is already met is
\* reported to the callback, and is the last report when StopDiscovery is
\* issued in that iteration; a Discovering = false of the adapter handled
\* when the bound is already met ends the loop with no StopDiscovery.
C23_CheckFollowsProcessing ==
    /\ [][(pc' = "check_duration" /\ pc # "check_duration") =>
            pc = "process"]_vars
    /\ [][pc' = "stop_discovery" => pc = "check_duration"]_vars
    /\ [][(Handles /\ IsDeviceSignalUnder(i, object_path)
              /\ BoundMet(duration, elapsed)) =>
            /\ found' = Append(found, SignalledPath(i))
            /\ calls' = calls
            /\ pc' = "check_duration"]_vars
    /\ [][(Issues("StopDiscovery") /\ IsDeviceSignalUnder(i, object_path)) =>
            (found # <<>> /\ found[Len(found)] = SignalledPath(i))]_vars
    /\ [][(Handles /\ IsStoppedSignal(i, object_path)
              /\ BoundMet(duration, elapsed)) =>
            (pc' = "remove_match1" /\ calls' = calls)]_vars
    /\ []((LeftLoop /\ IsStoppedSignal(i, object_path)
              /\ BoundMet(duration, elapsed)) =>
            (~Issued("StopDiscovery") /\ pc # "stop_discovery"))

\* The bound was met while a device signal was being handled: the device was
\* reported, and only then StopDiscovery was issued.
C23_Witness ==
    /\ Issued("StopDiscovery")
    /\ IsDeviceSignalUnder(i, object_path)
    /\ found = <<SignalledPath(i)>>
    /\ elapsed = duration * 1000

\* The bound was met while Discovering = false was being handled: the loop
\* was left for the unregistrations and StopDiscovery was not issued.
C23_WitnessStopped ==
    /\ pc = "remove_match1"
    /\ IsStoppedSignal(i, object_path)
    /\ BoundMet(duration, elapsed)
    /\ ~Issued("StopDiscovery")

----------------------------------------------------------------------------
(* The error of a failed StopDiscovery *)

\* C24: issuing StopDiscovery either succeeds, the session going on with no
\* result yet, or fails, the session returning the StopDiscovery error; that
\* error, once the result, is never replaced, and a run whose last bus
\* operation was StopDiscovery has returned neither success nor the outcome
\* of an unregistration.
C24_StopErrorIsTheResult ==
    /\ [][Issues("StopDiscovery") =>
            \/ (pc' = "remove_match1" /\ result' = Pending)
            \/ (pc' = "returned" /\ result' = Err("StopDiscovery"))]_vars
    /\ [][result = Err("StopDiscovery") =>
            (result' = result /\ calls' = calls /\ pc' = pc)]_vars
    /\ []((pc = "returned" /\ calls # <<>>
              /\ calls[Len(calls)] = "StopDiscovery") =>
            result = Err("StopDiscovery"))
    /\ [](result = Err("StopDiscovery") =>
            (pc = "returned" /\ BoundMet(duration, elapsed)))

\* After two reports the bound was met and StopDiscovery failed: the run
\* returned that error.
C24_Witness ==
    /\ result = Err("StopDiscovery")
    /\ pc = "returned"
    /\ Len(found) = 2
    /\ ~Issued("RemoveMatch1")

----------------------------------------------------------------------------
(* The second unregistration *)

\* C25: a session that attempted to unregister the first filter does not
\* return without having attempted to unregister the second, whether the
\* first unregistration succeeded or failed.
C25_SecondUnregistrationAttempted ==
    (pc = "returned" /\ Issued("RemoveMatch1")) => Issued("RemoveMatch2")

----------------------------------------------------------------------------
(* When the callback runs *)

\* The callback is invoked in this step.
Reports == found' # found

\* q is p with reports added at its end.
Extends(q, p) ==
    /\ Len(q) >= Len(p)
    /\ SubSeq(q, 1, Len(p)) = p

\* C26: the callback is invoked only while an item is handled inside the
\* loop: not before StartDiscovery has succeeded, not once the loop has been
\* left (by Discovering = false or by the bound), not after StopDiscovery or
\* an unregistration, and with both filters registered.  Reports are added
\* at the end of the earlier ones and name the item read last, so they occur
\* in the order in which their signals were received.
C26_CallbackOnlyInLoopInOrder ==
    /\ [](~LoopEntered => found = <<>>)
    /\ [][Reports =>
            /\ LoopEntered /\ pc = "process"
            /\ \A f \in Filters : matches[f] = 1
            /\ ~Issued("StopDiscovery")
            /\ ~Issued("RemoveMatch1") /\ ~Issued("RemoveMatch2")]_vars
    /\ [][LeftLoop => found' = found]_vars
    /\ [][Reads => (pc = "poll" /\ pc' = "process" /\ found' = found)]_vars
    /\ [][Reports =>
            /\ i' = i
            /\ Extends(found', found)
            /\ \A k \in (Len(found) + 1)..Len(found') :
                  found'[k] = SignalledPath(i)]_vars

\* Two devices were reported in the order of their signals, the second in
\* the iteration where the bound was met; the run then stopped discovery,
\* unregistered both filters and returned with no further report.
C26_Witness ==
    /\ pc = "returned"
    /\ result = Ok
    /\ Issued("StopDiscovery")
    /\ IsDeviceSignalUnder(i, object_path)
    /\ Len(found) = 2
    /\ found[1] # found[2]
    /\ found[2] = SignalledPath(i)

====
